---- MODULE Spec2Model ----
(***************************************************************************)
(* RecommendationsService (recommendations-service.js): one run of         *)
(* getRecommendedTracksAndCreatePlaylist on a freshly constructed service. *)
(* Every await of the code is a position of pc; the Spotify Web API is the *)
(* environment, whose responses are chosen nondeterministically.           *)
(***************************************************************************)
EXTENDS Integers, Sequences, FiniteSets

\* ---------------------------------------------------------------- bounds
\* largest options.useTopTracks explored
MaxTop == 17
\* options.playListLength ranges over 0..MaxLen, and 30 (a usual length)
MaxLen == 5
\* the API returns at most MaxResp tracks per recommendation response
MaxResp == 1

\* ------------------------------------------------------- program constants
maxSeeds == 5

Methods == {"onlyArtist", "split", "onlyTrack"}
PlayListLengths == (0..MaxLen) \cup {30}

VARIABLES
    method,             \* options.recommendationsMethod
    useTopTracks,       \* options.useTopTracks
    playListLength,     \* options.playListLength
    pc,                 \* position of the run (the await it is suspended at)
    error,              \* the rejection surfaced to the caller, "none" if none
    topCalls,           \* getMyTopTracks / getMyTopArtists calls made, in order
    seed_tracks,        \* usersTopIds.seed_tracks  (<<>> when absent)
    seed_artists,       \* usersTopIds.seed_artists (<<>> when absent)
    requests,           \* getRecommendations calls made, in issue order
    seedOption,         \* getRecommendedTracks: parameter seedOption
    userTopIds,         \* getRecommendedTracks: parameter userTopIds
    numTracksToCreate,  \* getRecommendedTracks: local
    i,                  \* getRecommendedTracks: loop counter
    seedsRemaining,     \* getRecommendedTracks: local
    numTracksRemaining, \* getRecommendedTracks: local
    numTracksPortion,   \* getRecommendedTracks: limit of the request in flight
    grtTracks,          \* getRecommendedTracks: local recommendedTracks
    returned,           \* seed options whose getRecommendedTracks call returned
    recommendedTracks,  \* getRecommendedTracksAndCreatePlaylist: merged tracks
    playlistCalls,      \* getMe / createPlaylist / addTracksToPlaylist calls
    playListId,         \* this.playListId ("null" until a playlist is created)
    fetch,              \* per track: state of its getArtistTopTracks fetch
    topTracks,          \* per track: whether track['topTracks'] has been set
    result              \* value createPlaylist resolved with (<<>> before)

vars == <<method, useTopTracks, playListLength, pc, error, topCalls,
          seed_tracks, seed_artists, requests, seedOption, userTopIds,
          numTracksToCreate, i, seedsRemaining, numTracksRemaining,
          numTracksPortion, grtTracks, returned, recommendedTracks,
          playlistCalls, playListId, fetch, topTracks, result>>

optVars == <<method, useTopTracks, playListLength>>
grtVars == <<seedOption, userTopIds, numTracksToCreate, i, seedsRemaining,
             numTracksRemaining, numTracksPortion, grtTracks>>
plVars == <<playlistCalls, playListId, fetch, topTracks, result>>

\* ------------------------------------------------------------ arithmetic
Min(a, b) == IF a <= b THEN a ELSE b
Max(a, b) == IF a >= b THEN a ELSE b

\* Math.ceil(a / b) and Math.floor(a / b) for a >= 0, b > 0
MathCeilDiv(a, b) == (a + b - 1) \div b
MathFloorDiv(a, b) == a \div b
\* Math.round(a / b) for a >= 0, b > 0: halves round up
MathRoundDiv(a, b) == (2 * a + b) \div (2 * b)

\* Array.prototype.slice(begin, end) on a sequence (0-based, end exclusive)
SliceIndex(len, k) == IF k < 0 THEN Max(len + k, 0) ELSE Min(k, len)
Slice(s, begin, end) ==
    LET b == SliceIndex(Len(s), begin)
        e == SliceIndex(Len(s), end)
    IN  IF b >= e THEN <<>> ELSE SubSeq(s, b + 1, e)

\* the ids of the k top items the API returned (items.map(x => x.id))
Ids(k) == [j \in 1..k |-> j]

\* ------------------------------------------------------------------ Init
Init ==
    /\ method \in Methods
    /\ useTopTracks \in 0..MaxTop
    /\ playListLength \in PlayListLengths
    /\ pc = "getUsersTopIds"
    /\ error = "none"
    /\ topCalls = <<>>
    /\ seed_tracks = <<>>
    /\ seed_artists = <<>>
    /\ requests = <<>>
    /\ seedOption = "none"
    /\ userTopIds = <<>>
    /\ numTracksToCreate = 0
    /\ i = 0
    /\ seedsRemaining = 0
    /\ numTracksRemaining = 0
    /\ numTracksPortion = 0
    /\ grtTracks = <<>>
    /\ returned = {}
    /\ recommendedTracks = <<>>
    /\ playlistCalls = <<>>
    /\ playListId = "null"
    /\ fetch = <<>>
    /\ topTracks = <<>>
    /\ result = <<>>

\* -------------------------------------------------------- getUsersTopIds
\* mutant: the track share rounded down instead of up
topTracksLen_Floor == MathFloorDiv(useTopTracks, 2)

\* line 63
topTracksLen == MathCeilDiv(useTopTracks, 2)
\* line 64
topArtistsLen == useTopTracks - topTracksLen

\* lines 49-89 up to the first await: the first top-items call of the method
GetUsersTopIds ==
    /\ pc = "getUsersTopIds"
    /\ IF method = "onlyArtist"
       THEN /\ topCalls' = Append(topCalls,
                   [op |-> "getMyTopArtists", limit |-> useTopTracks])
            /\ pc' = "awaitTopArtists"
       ELSE IF method = "split"
       THEN /\ topCalls' = Append(topCalls,
                   [op |-> "getMyTopTracks", limit |-> topTracksLen])
            /\ pc' = "awaitTopTracks"
       ELSE /\ topCalls' = Append(topCalls,
                   [op |-> "getMyTopTracks", limit |-> useTopTracks])
            /\ pc' = "awaitTopTracks"
    /\ UNCHANGED <<optVars, error, seed_tracks, seed_artists, requests,
                   grtVars, returned, recommendedTracks, plVars>>

\* getMyTopTracks resolves with k items (at most the limit asked for)
TopTracksResponse ==
    /\ pc = "awaitTopTracks"
    /\ \E k \in 0..topCalls[Len(topCalls)].limit :
          seed_tracks' = Ids(k)
    /\ IF method = "split" /\ topArtistsLen > 0
       THEN /\ topCalls' = Append(topCalls,
                   [op |-> "getMyTopArtists", limit |-> topArtistsLen])
            /\ pc' = "awaitTopArtists"
       ELSE /\ topCalls' = topCalls
            /\ pc' = "line24"
    /\ UNCHANGED <<optVars, error, seed_artists, requests, grtVars, returned,
                   recommendedTracks, plVars>>

\* getMyTopArtists resolves with k items (at most the limit asked for)
TopArtistsResponse ==
    /\ pc = "awaitTopArtists"
    /\ \E k \in 0..topCalls[Len(topCalls)].limit :
          seed_artists' = Ids(k)
    /\ pc' = "line24"
    /\ UNCHANGED <<optVars, error, topCalls, seed_tracks, requests, grtVars,
                   returned, recommendedTracks, plVars>>

\* ---------------------------------------------------- getRecommendedTracks
\* lines 101-109: the share of playListLength this seed option gets
NumTracksToCreate(opt) ==
    IF method = "split"
    THEN IF opt = "seed_tracks" THEN MathCeilDiv(playListLength, 2)
         ELSE IF opt = "seed_artists" THEN MathFloorDiv(playListLength, 2)
         ELSE playListLength
    ELSE playListLength

\* a getRecommendations call: {limit: limit, [opt]: seeds}
Request(opt, seeds, limit) ==
    [seedOption |-> opt, seeds |-> seeds, limit |-> limit]

\* mutant: the short list cut like the chunks of line 134, without its last id
SingleRequest_DropsLast(opt, ids) ==
    Request(opt, Slice(ids, 0, Len(ids) - 1), NumTracksToCreate(opt))

\* lines 111-115: the single request of a list shorter than maxSeeds
SingleRequest(opt, ids) == Request(opt, ids, NumTracksToCreate(opt))

\* mutant: the loop runs on the remaining limit alone
LoopCondition_LimitOnly(sr, ntr) == ntr > 0

\* line 123: the loop condition
LoopCondition(sr, ntr) == sr > 0 /\ ntr > 0

\* lines 126-132: the limit of the chunk request
NumTracksPortion(ids, ntc, sr, ntr) ==
    IF sr >= maxSeeds
    THEN MathRoundDiv(ntc, MathFloorDiv(Len(ids), maxSeeds))
    ELSE ntr

\* lines 126-132: the number of seeds the chunk is cut with
SeedsToUse(sr) == IF sr >= maxSeeds THEN maxSeeds ELSE sr

\* line 134: userTopIds.slice(i * seedsToUse, (i + 1) * seedsToUse - 1)
UserTopIdsPortion(ids, k, sr) ==
    Slice(ids, k * SeedsToUse(sr), (k + 1) * SeedsToUse(sr) - 1)

\* the tracks of the response to request number r, k of them
Tracks(r, k) == [j \in 1..k |-> r * 100 + j]

\* the numbers of tracks a response to a request of this limit may hold
ResponseSizes(limit) == 0..Min(Max(limit, 0), MaxResp)

\* lines 25-33: the position the orchestrator resumes at after the call
Continuation(opt) == IF opt = "seed_artists" THEN "line30" ELSE "line36"

\* lines 100-122: the call, up to the first await or the loop head
Enter(ids, opt) ==
    /\ seedOption' = opt
    /\ userTopIds' = ids
    /\ numTracksToCreate' = NumTracksToCreate(opt)
    /\ i' = 0
    /\ grtTracks' = <<>>
    /\ IF Len(ids) < maxSeeds
       THEN /\ requests' = Append(requests, SingleRequest(opt, ids))
            /\ numTracksPortion' = NumTracksToCreate(opt)
            /\ pc' = "awaitSingle"
            /\ UNCHANGED <<seedsRemaining, numTracksRemaining>>
       ELSE /\ seedsRemaining' = Len(ids)
            /\ numTracksRemaining' = NumTracksToCreate(opt)
            /\ pc' = "loop"
            /\ UNCHANGED <<requests, numTracksPortion>>

\* lines 24-28: the artist-seeded call, skipped for an absent or empty list
Line24 ==
    /\ pc = "line24"
    /\ IF Len(seed_artists) > 0
       THEN Enter(seed_artists, "seed_artists")
       ELSE /\ pc' = "line30"
            /\ UNCHANGED <<requests, grtVars>>
    /\ UNCHANGED <<optVars, error, topCalls, seed_tracks, seed_artists,
                   returned, recommendedTracks, plVars>>

\* lines 30-34: the track-seeded call, skipped for an absent or empty list
Line30 ==
    /\ pc = "line30"
    /\ IF Len(seed_tracks) > 0
       THEN Enter(seed_tracks, "seed_tracks")
       ELSE /\ pc' = "line36"
            /\ UNCHANGED <<requests, grtVars>>
    /\ UNCHANGED <<optVars, error, topCalls, seed_tracks, seed_artists,
                   returned, recommendedTracks, plVars>>

\* lines 112-116: the single response; its tracks are returned and merged
SingleResponse ==
    /\ pc = "awaitSingle"
    /\ \E k \in ResponseSizes(numTracksPortion) :
          /\ grtTracks' = Tracks(Len(requests), k)
          /\ recommendedTracks' = recommendedTracks \o Tracks(Len(requests), k)
    /\ returned' = returned \cup {seedOption}
    /\ pc' = Continuation(seedOption)
    /\ UNCHANGED <<optVars, error, topCalls, seed_tracks, seed_artists,
                   requests, seedOption, userTopIds, numTracksToCreate, i,
                   seedsRemaining, numTracksRemaining, numTracksPortion,
                   plVars>>

\* lines 123-138: the loop test and, when it holds, the next chunk request
LoopIssue ==
    /\ pc = "loop"
    /\ LoopCondition(seedsRemaining, numTracksRemaining)
    /\ numTracksPortion' = NumTracksPortion(userTopIds, numTracksToCreate,
                                            seedsRemaining, numTracksRemaining)
    /\ requests' = Append(requests,
          Request(seedOption,
                  UserTopIdsPortion(userTopIds, i, seedsRemaining),
                  NumTracksPortion(userTopIds, numTracksToCreate,
                                   seedsRemaining, numTracksRemaining)))
    /\ pc' = "awaitChunk"
    /\ UNCHANGED <<optVars, error, topCalls, seed_tracks, seed_artists,
                   seedOption, userTopIds, numTracksToCreate, i,
                   seedsRemaining, numTracksRemaining, grtTracks, returned,
                   recommendedTracks, plVars>>

\* lines 123, 143: the loop test fails; the gathered tracks are returned
LoopReturn ==
    /\ pc = "loop"
    /\ ~LoopCondition(seedsRemaining, numTracksRemaining)
    /\ recommendedTracks' = recommendedTracks \o grtTracks
    /\ returned' = returned \cup {seedOption}
    /\ pc' = Continuation(seedOption)
    /\ UNCHANGED <<optVars, error, topCalls, seed_tracks, seed_artists,
                   requests, grtVars, plVars>>

\* lines 139-141 and i++: the chunk's response
ChunkResponse ==
    /\ pc = "awaitChunk"
    /\ \E k \in ResponseSizes(numTracksPortion) :
          grtTracks' = grtTracks \o Tracks(Len(requests), k)
    /\ seedsRemaining' = seedsRemaining - maxSeeds
    /\ numTracksRemaining' = numTracksRemaining - numTracksPortion
    /\ i' = i + 1
    /\ pc' = "loop"
    /\ UNCHANGED <<optVars, error, topCalls, seed_tracks, seed_artists,
                   requests, seedOption, userTopIds, numTracksToCreate,
                   numTracksPortion, returned, recommendedTracks, plVars>>

\* -------------------------------------------------------- createPlaylist
\* mutant: createPlaylist without its empty check
CreatePlaylist_NoEmptyCheck ==
    /\ pc = "line36"
    /\ playlistCalls' = Append(playlistCalls, "getMe")
    /\ pc' = "awaitGetMe"
    /\ UNCHANGED <<optVars, error, topCalls, seed_tracks, seed_artists,
                   requests, grtVars, returned, recommendedTracks, playListId,
                   fetch, topTracks, result>>

\* lines 36, 153-155, 170-172: the empty check, then getMe or the throw
CreatePlaylist ==
    /\ pc = "line36"
    /\ IF Len(recommendedTracks) > 0
       THEN /\ playlistCalls' = Append(playlistCalls, "getMe")
            /\ pc' = "awaitGetMe"
            /\ error' = error
       ELSE /\ pc' = "failed"
            /\ error' = "status20"
            /\ playlistCalls' = playlistCalls
    /\ UNCHANGED <<optVars, topCalls, seed_tracks, seed_artists, requests,
                   grtVars, returned, recommendedTracks, playListId, fetch,
                   topTracks, result>>

\* lines 155-159: getMe resolved; createPlaylist is called
GetMeResponse ==
    /\ pc = "awaitGetMe"
    /\ playlistCalls' = Append(playlistCalls, "createPlaylist")
    /\ pc' = "awaitCreatePlaylist"
    /\ UNCHANGED <<optVars, error, topCalls, seed_tracks, seed_artists,
                   requests, grtVars, returned, recommendedTracks, playListId,
                   fetch, topTracks, result>>

\* lines 157-161: createPlaylist resolved; addTracksToPlaylist is called
CreatePlaylistResponse ==
    /\ pc = "awaitCreatePlaylist"
    /\ playlistCalls' = Append(playlistCalls, "addTracksToPlaylist")
    /\ pc' = "awaitAddTracks"
    /\ UNCHANGED <<optVars, error, topCalls, seed_tracks, seed_artists,
                   requests, grtVars, returned, recommendedTracks, playListId,
                   fetch, topTracks, result>>

\* lines 161-167: addTracksToPlaylist resolved; the id is cached and every
\* track's addTopTracks runs to its await, so every fetch is in flight
AddTracksResponse ==
    /\ pc = "awaitAddTracks"
    /\ playListId' = "playlist"
    /\ fetch' = [p \in 1..Len(recommendedTracks) |-> "pending"]
    /\ topTracks' = [p \in 1..Len(recommendedTracks) |-> FALSE]
    /\ pc' = "awaitAll"
    /\ UNCHANGED <<optVars, error, topCalls, seed_tracks, seed_artists,
                   requests, grtVars, returned, recommendedTracks,
                   playlistCalls, result>>

\* whether Promise.all over these fetches has resolved
AllResolved(f) == \A p \in 1..Len(f) : f[p] = "ok"

\* lines 167-169: the value createPlaylist resolves with
Resolved(tt) ==
    [p \in 1..Len(recommendedTracks) |->
        [id |-> recommendedTracks[p], topTracks |-> tt[p]]]

\* lines 200-203, 167-169: track p's getArtistTopTracks resolves; the track
\* gets its topTracks, and Promise.all resolves once every fetch has
TopTracksFetched(p) ==
    /\ fetch[p] = "pending"
    /\ fetch' = [fetch EXCEPT ![p] = "ok"]
    /\ topTracks' = [topTracks EXCEPT ![p] = TRUE]
    /\ IF pc = "awaitAll" /\ AllResolved([fetch EXCEPT ![p] = "ok"])
       THEN /\ pc' = "done"
            /\ result' = Resolved([topTracks EXCEPT ![p] = TRUE])
       ELSE UNCHANGED <<pc, result>>
    /\ UNCHANGED <<optVars, error, topCalls, seed_tracks, seed_artists,
                   requests, grtVars, returned, recommendedTracks,
                   playlistCalls, playListId>>

\* lines 201, 167: track p's getArtistTopTracks rejects; addTopTracks does
\* not catch, so Promise.all rejects at once and createPlaylist throws
TopTracksFailed(p) ==
    /\ fetch[p] = "pending"
    /\ fetch' = [fetch EXCEPT ![p] = "failed"]
    /\ IF pc = "awaitAll"
       THEN /\ pc' = "failed"
            /\ error' = "getArtistTopTracks"
       ELSE UNCHANGED <<pc, error>>
    /\ UNCHANGED <<optVars, topCalls, seed_tracks, seed_artists, requests,
                   grtVars, returned, recommendedTracks, playlistCalls,
                   playListId, topTracks, result>>

GetArtistTopTracksResponse ==
    \E p \in 1..Len(fetch) : TopTracksFetched(p) \/ TopTracksFailed(p)

\* the awaits of a single API call: a rejection there is not caught (line 6)
SequentialAwaits ==
    {"awaitTopTracks", "awaitTopArtists", "awaitSingle", "awaitChunk",
     "awaitGetMe", "awaitCreatePlaylist", "awaitAddTracks"}

ApiRejects ==
    /\ pc \in SequentialAwaits
    /\ pc' = "failed"
    /\ error' = pc
    /\ UNCHANGED <<optVars, topCalls, seed_tracks, seed_artists, requests,
                   grtVars, returned, recommendedTracks, plVars>>

Next ==
    \/ GetUsersTopIds
    \/ TopTracksResponse
    \/ TopArtistsResponse
    \/ Line24
    \/ Line30
    \/ SingleResponse
    \/ LoopIssue
    \/ LoopReturn
    \/ ChunkResponse
    \/ CreatePlaylist
    \/ GetMeResponse
    \/ CreatePlaylistResponse
    \/ AddTracksResponse
    \/ GetArtistTopTracksResponse
    \/ ApiRejects

Spec == Init /\ [][Next]_vars

\* every step the run can take is eventually taken: the event loop runs the
\* code that is ready, and every API call eventually responds
FairSpec == Spec /\ WF_vars(Next)

\* ------------------------------------------------------------ properties
SeedOptions == {"seed_artists", "seed_tracks"}

\* the seed list getRecommendedTracks is called with for a seed option
SeedsOf(opt) == IF opt = "seed_artists" THEN seed_artists ELSE seed_tracks

\* the requests issued for a seed option, in issue order
IsFor(opt, r) == r.seedOption = opt
RequestsOf(opt) == SelectSeq(requests, LAMBDA r : IsFor(opt, r))

RECURSIVE ConcatSeeds(_)
ConcatSeeds(rs) ==
    IF rs = <<>> THEN <<>> ELSE Head(rs).seeds \o ConcatSeeds(Tail(rs))

RECURSIVE SumLimits(_)
SumLimits(rs) ==
    IF rs = <<>> THEN 0 ELSE Head(rs).limit + SumLimits(Tail(rs))

\* the total limit of a seed option: its share of playListLength
TotalLimit(opt) ==
    IF method # "split" THEN playListLength
    ELSE IF opt = "seed_tracks" THEN (playListLength + 1) \div 2
    ELSE playListLength \div 2

\* ceil(n / 5)
Chunks(n) == (n + 4) \div 5

\* C1: for a seed list of length >= 5 whose chunks were all issued, the seed
\* lists of the requests, concatenated in issue order, equal the seed list.
C1_ChunksPartitionSeeds ==
    \A opt \in returned :
        (/\ Len(SeedsOf(opt)) >= 5
         /\ Len(RequestsOf(opt)) = Chunks(Len(SeedsOf(opt))))
        => ConcatSeeds(RequestsOf(opt)) = SeedsOf(opt)

\* C2: the limits of the requests issued for a seed list sum to at most the
\* total limit, and to exactly the total limit when it is a multiple of the
\* number of full chunks.
C2_LimitsSumWithinTotal ==
    \A opt \in returned :
        LET full == Len(SeedsOf(opt)) \div 5
            sum == SumLimits(RequestsOf(opt))
        IN  /\ sum <= TotalLimit(opt)
            /\ (full > 0 /\ TotalLimit(opt) % full = 0)
                   => sum = TotalLimit(opt)

\* C3: for a seed list of length >= 5 no request is issued once the remaining
\* limit is 0 or less, and no request carries a limit of 0 or less.
C3_NoRequestWithoutLimit ==
    /\ pc = "awaitChunk" => numTracksRemaining > 0
    /\ \A k \in 1..Len(requests) :
           Len(SeedsOf(requests[k].seedOption)) >= 5 => requests[k].limit > 0

\* C4: a non-empty seed list shorter than 5 gets exactly one request, which
\* carries every seed in order and the whole total limit.
C4_ShortListSingleRequest ==
    \A opt \in SeedOptions :
        Len(SeedsOf(opt)) \in 1..4 =>
            /\ \A k \in 1..Len(RequestsOf(opt)) :
                   RequestsOf(opt)[k] = [seedOption |-> opt,
                                         seeds |-> SeedsOf(opt),
                                         limit |-> TotalLimit(opt)]
            /\ Len(RequestsOf(opt)) <= 1
            /\ opt \in returned => Len(RequestsOf(opt)) = 1

\* C4's case: split mode, both short lists served, several seeds each
C4_Witness ==
    /\ method = "split"
    /\ returned = SeedOptions
    /\ Len(seed_artists) = 3
    /\ Len(seed_tracks) = 4
    /\ playListLength = 5
    /\ Len(requests) = 2

\* C5: every request issued carries at least 1 and at most 5 seeds.
C5_SeedCountWithinQuota ==
    \A k \in 1..Len(requests) :
        /\ Len(requests[k].seeds) >= 1
        /\ Len(requests[k].seeds) <= 5

\* createPlaylist has been entered
CreatePlaylistCalled ==
    \/ pc \in {"awaitGetMe", "awaitCreatePlaylist", "awaitAddTracks",
               "awaitAll", "done"}
    \/ /\ pc = "failed"
       /\ error \in {"status20", "awaitGetMe", "awaitCreatePlaylist",
                     "awaitAddTracks", "getArtistTopTracks"}

\* C6: createPlaylist on an empty merged list fails with its error, makes no
\* getMe, createPlaylist or addTracksToPlaylist call, leaves playListId as it
\* was and produces no playlist.
C6_EmptyListFails ==
    (CreatePlaylistCalled /\ recommendedTracks = <<>>) =>
        /\ pc = "failed"
        /\ error = "status20"
        /\ playlistCalls = <<>>
        /\ playListId = "null"
        /\ fetch = <<>>
        /\ result = <<>>

\* C6's case: a seed option was served, its response held no track
C6_Witness ==
    /\ pc = "failed"
    /\ error = "status20"
    /\ returned # {}
    /\ requests # <<>>
    /\ recommendedTracks = <<>>

\* every fetch createPlaylist started has completed
AllFetchesSettled ==
    /\ fetch # <<>>
    /\ \A p \in 1..Len(fetch) : fetch[p] # "pending"

\* C7: whatever the outcomes of the enrichment fetches, createPlaylist
\* returns as many tracks as it was given; one failed fetch fails nothing.
C7_EnrichmentFailureIsolated ==
    AllFetchesSettled =>
        /\ pc = "done"
        /\ error = "none"
        /\ Len(result) = Len(recommendedTracks)
        /\ \A p \in 1..Len(result) : result[p].id = recommendedTracks[p]

\* C8: createPlaylist neither returns nor fails while an enrichment fetch it
\* started is outstanding.
C8_WaitsForAllFetches ==
    pc \in {"done", "failed"} =>
        \A p \in 1..Len(fetch) : fetch[p] # "pending"

\* getUsersTopIds has returned
TopIdsReturned ==
    /\ pc \notin {"getUsersTopIds", "awaitTopTracks", "awaitTopArtists"}
    /\ ~(pc = "failed" /\ error \in {"awaitTopTracks", "awaitTopArtists"})

\* C9: in split mode ceil(n/2) top tracks and n - ceil(n/2) top artists are
\* fetched, the artist fetch only when that count is positive, and the total
\* limit is ceil(L/2) for the track seeds and floor(L/2) for the artist seeds.
C9_SplitShares ==
    method = "split" =>
        /\ pc # "getUsersTopIds" =>
               /\ Len(topCalls) >= 1
               /\ topCalls[1] = [op |-> "getMyTopTracks",
                                 limit |-> (useTopTracks + 1) \div 2]
        /\ TopIdsReturned =>
               IF useTopTracks - (useTopTracks + 1) \div 2 > 0
               THEN topCalls = <<
                       [op |-> "getMyTopTracks",
                        limit |-> (useTopTracks + 1) \div 2],
                       [op |-> "getMyTopArtists",
                        limit |-> useTopTracks - (useTopTracks + 1) \div 2] >>
               ELSE Len(topCalls) = 1
        /\ seedOption = "seed_tracks" =>
               numTracksToCreate = (playListLength + 1) \div 2
        /\ seedOption = "seed_artists" =>
               numTracksToCreate = playListLength \div 2
        /\ (pc = "loop" /\ i = 0) => numTracksRemaining = numTracksToCreate
        /\ pc = "awaitSingle" =>
               requests[Len(requests)].limit = numTracksToCreate

\* C9's case: 7 top items give 4 and 3, a length of 5 gives 3 and 2
C9_Witness ==
    /\ method = "split"
    /\ useTopTracks = 7
    /\ playListLength = 5
    /\ Len(topCalls) = 2
    /\ topCalls[1].limit = 4
    /\ topCalls[2].limit = 3
    /\ seedOption = "seed_tracks"
    /\ numTracksToCreate = 3
    /\ "seed_artists" \in returned

\* the run is in the batching loop of getRecommendedTracks
InLoop == pc \in {"loop", "awaitChunk"}

\* C10: the batching loop ends, and it issues at most ceil(n/5) requests for
\* a list of n >= 5 seeds, also when the limit of a full chunk rounds to 0.
C10_LoopTerminates ==
    /\ [](\A opt \in SeedOptions :
            Len(SeedsOf(opt)) >= 5 =>
                Len(RequestsOf(opt)) <= Chunks(Len(SeedsOf(opt))))
    /\ (InLoop ~> ~InLoop)

\* C10's case: three full chunks of limit 0, so the remaining limit never
\* fell, and the loop has ended
C10_Witness ==
    /\ Len(seed_artists) = 15
    /\ "seed_artists" \in returned
    /\ Len(RequestsOf("seed_artists")) = 3
    /\ \A k \in 1..3 : RequestsOf("seed_artists")[k].limit = 0
    /\ numTracksRemaining = 1
====
